---- MODULE Spec2Model ----
(***************************************************************************)
(* Model of the Shopping API (src/main.py): the /seed and /checkout        *)
(* handlers running in concurrent request workers against one document     *)
(* store holding the "product" and "order" collections.                    *)
(*                                                                         *)
(* Money.  Python floats are modelled as fixed-point integers counting     *)
(* units of 10^-5 (1 cent = 1000 units, 1 mill = 100 units).  Every price  *)
(* in the model is a whole, even number of mills, so x * 0.08 is exact in  *)
(* this unit and round(x, 2) never meets a tie; on that domain the         *)
(* fixed-point results coincide with the float results of the program.     *)
(*                                                                         *)
(* Identifiers.  A product-id string is a record [form, oid]: form says    *)
(* how the text is spelled ("lower" or "upper" case hex digits, or         *)
(* "malformed" = not 24 hex digits) and oid is the 12-byte value the hex   *)
(* digits denote.  bson's ObjectId(s) parses either case; str(oid) always  *)
(* prints lower case.                                                      *)
(***************************************************************************)
EXTENDS Integers, Sequences, FiniteSets, TLC

\* ---------------------------------------------------------------- bounds
MaxCalls == 3
MaxReprice == 1

\* request workers (the server's thread pool runs the handlers concurrently)
Procs == {"w1", "w2"}

\* ------------------------------------------------------------ identifiers
InvalidId == [error |-> "InvalidId"]

ObjectId(s) == IF s.form = "malformed" THEN InvalidId ELSE [oid |-> s.oid]

str(id) == [form |-> "lower", oid |-> id.oid]

\* CartItem(product_id, quantity)
CartItem(pid, q) == [product_id |-> pid, quantity |-> q]

\* product_id strings a client sends: product 1 spelled in lower and in upper
\* case hex, a well-formed id no document carries, and a malformed one
lower1 == [form |-> "lower", oid |-> 1]
upper1 == [form |-> "upper", oid |-> 1]
absent == [form |-> "lower", oid |-> 0]
malformed == [form |-> "malformed", oid |-> 0]

\* the items lists of the requests clients send: empty, single items, the
\* same product twice, a list and its permutation, a malformed id among
\* well-formed ones, three items
OrderRequest ==
  { <<>>,
    << CartItem(lower1, 2) >>,
    << CartItem(lower1, 1) >>,
    << CartItem(upper1, 1) >>,
    << CartItem(absent, 2) >>,
    << CartItem(malformed, 1) >>,
    << CartItem(lower1, 2), CartItem(lower1, 1) >>,
    << CartItem(lower1, 2), CartItem(absent, 2) >>,
    << CartItem(absent, 2), CartItem(lower1, 2) >>,
    << CartItem(upper1, 1), CartItem(lower1, 2) >>,
    << CartItem(lower1, 2), CartItem(malformed, 1) >>,
    << CartItem(lower1, 1), CartItem(absent, 1), CartItem(lower1, 2) >> }

\* ------------------------------------------------------------------ money
TaxPercent == 8

RoundHalfEven(n, d) ==
  LET q == n \div d
      r == n % d
  IN IF 2 * r > d \/ (2 * r = d /\ q % 2 = 1) THEN q + 1 ELSE q

\* round(x, 2): nearest cent, ties to even
round(x) == 1000 * RoundHalfEven(x, 1000)

\* x * 0.08
TimesTaxRate(x) == (x * TaxPercent) \div 100

\* prices an administrator sets from outside (0.064: a sub-cent price)
AdminPrices == { 6400 }

\* the products whose price the administrator changes
AdminIds == { [oid |-> 1] }

sample ==
  << [title |-> "Classic Tee",     price |-> 1999000],
     [title |-> "Premium Hoodie",  price |-> 4900000],
     [title |-> "Travel Mug",      price |-> 2450000],
     [title |-> "Leather Journal", price |-> 2995000] >>

\* ------------------------------------------------------------------ state
VARIABLES db, product, order, pc, sidx, req, products, request, response, calls, reprices

vars == <<db, product, order, pc, sidx, req, products, request, response, calls, reprices>>

\* the request received last: its worker, endpoint and body
NoRequest == [to |-> "", endpoint |-> "none", items |-> <<>>]

Request(p, ep, items) == [to |-> p, endpoint |-> ep, items |-> items]

\* the response sent last; exc names the exception that left the handler
NoResponse == [to |-> "", endpoint |-> "none", status |-> 0, detail |-> "", exc |-> "",
               count |-> 0, order_id |-> "", subtotal |-> 0, tax |-> 0, total |-> 0]

HTTPException(c, ep, code, msg) ==
  [NoResponse EXCEPT !.to = c, !.endpoint = ep, !.status = code, !.detail = msg]

\* an exception no handler catches: the framework answers 500
Unhandled(c, ep, e) ==
  [HTTPException(c, ep, 500, "Internal Server Error") EXCEPT !.exc = e]

SeedResponse(c, msg, n) ==
  [NoResponse EXCEPT !.to = c, !.endpoint = "seed", !.status = 200,
                     !.detail = msg, !.count = n]

CheckoutResponse(c, oid, sub, tx, tot) ==
  [NoResponse EXCEPT !.to = c, !.endpoint = "checkout", !.status = 200,
                     !.order_id = oid, !.subtotal = sub, !.tax = tx, !.total = tot]

\* the data-access layer: insert one document under a fresh store-assigned id
create_document(coll, doc) ==
  Append(coll, [_id |-> [oid |-> Len(coll) + 1]] @@ doc)

\* the id create_document returns: the new document's id as a string
inserted_id(coll) == str([oid |-> Len(coll) + 1])

\* db is None or a handle on a store whose collections start out empty
Init ==
  /\ db \in BOOLEAN
  /\ product = <<>>
  /\ order = <<>>
  /\ pc = [p \in Procs |-> "idle"]
  /\ sidx = [p \in Procs |-> 0]
  /\ req = [p \in Procs |-> <<>>]
  /\ products = [p \in Procs |-> <<>>]
  /\ request = NoRequest
  /\ response = NoResponse
  /\ calls = 0
  /\ reprices = 0

\* ------------------------------------------------------------------- seed
\* SeedCount without the "count > 0" return: every call goes on to insert
SeedCount_NoGuard(p) ==
  /\ pc[p] = "idle"
  /\ calls < MaxCalls
  /\ calls' = calls + 1
  /\ request' = Request(p, "seed", <<>>)
  /\ IF ~db
       THEN /\ response' = HTTPException(p, "seed", 500, "Database not configured")
            /\ UNCHANGED <<pc, sidx>>
       ELSE /\ pc' = [pc EXCEPT ![p] = "seed_insert"]
            /\ sidx' = [sidx EXCEPT ![p] = 1]
            /\ UNCHANGED response
  /\ UNCHANGED <<db, product, order, req, products, reprices>>

\* SeedCount without the "db is None" check: db["product"] then raises
SeedCount_NoDbCheck(p) ==
  /\ pc[p] = "idle"
  /\ calls < MaxCalls
  /\ calls' = calls + 1
  /\ request' = Request(p, "seed", <<>>)
  /\ IF ~db
       THEN /\ response' = Unhandled(p, "seed", "TypeError")
            /\ UNCHANGED <<pc, sidx>>
       ELSE LET count == Len(product)
            IN IF count > 0
                 THEN /\ response' = SeedResponse(p, "Products already seeded", count)
                      /\ UNCHANGED <<pc, sidx>>
                 ELSE /\ pc' = [pc EXCEPT ![p] = "seed_insert"]
                      /\ sidx' = [sidx EXCEPT ![p] = 1]
                      /\ UNCHANGED response
  /\ UNCHANGED <<db, product, order, req, products, reprices>>

\* lines 86-91: the db check, count_documents and the "already seeded" return
SeedCount(p) ==
  /\ pc[p] = "idle"
  /\ calls < MaxCalls
  /\ calls' = calls + 1
  /\ request' = Request(p, "seed", <<>>)
  /\ IF ~db
       THEN /\ response' = HTTPException(p, "seed", 500, "Database not configured")
            /\ UNCHANGED <<pc, sidx>>
       ELSE LET count == Len(product)
            IN IF count > 0
                 THEN /\ response' = SeedResponse(p, "Products already seeded", count)
                      /\ UNCHANGED <<pc, sidx>>
                 ELSE /\ pc' = [pc EXCEPT ![p] = "seed_insert"]
                      /\ sidx' = [sidx EXCEPT ![p] = 1]
                      /\ UNCHANGED response
  /\ UNCHANGED <<db, product, order, req, products, reprices>>

\* SeedInsert answering with the collection's size instead of len(sample)
SeedInsert_CountsCollection(p) ==
  /\ pc[p] = "seed_insert"
  /\ product' = create_document(product, sample[sidx[p]])
  /\ IF sidx[p] = Len(sample)
       THEN /\ pc' = [pc EXCEPT ![p] = "idle"]
            /\ sidx' = [sidx EXCEPT ![p] = 0]
            /\ response' = SeedResponse(p, "Seeded products", Len(product'))
       ELSE /\ sidx' = [sidx EXCEPT ![p] = sidx[p] + 1]
            /\ UNCHANGED <<pc, response>>
  /\ UNCHANGED <<db, order, req, products, request, calls, reprices>>

\* lines 100-103: one create_document of the loop; the last one returns
SeedInsert(p) ==
  /\ pc[p] = "seed_insert"
  /\ product' = create_document(product, sample[sidx[p]])
  /\ IF sidx[p] = Len(sample)
       THEN /\ pc' = [pc EXCEPT ![p] = "idle"]
            /\ sidx' = [sidx EXCEPT ![p] = 0]
            /\ response' = SeedResponse(p, "Seeded products", Len(sample))
       ELSE /\ sidx' = [sidx EXCEPT ![p] = sidx[p] + 1]
            /\ UNCHANGED <<pc, response>>
  /\ UNCHANGED <<db, order, req, products, request, calls, reprices>>

\* --------------------------------------------------------------- checkout
\* line 132: db["product"].find({"_id": {"$in": product_ids}}), store order
find(coll, ids) == SelectSeq(coll, LAMBDA d : d._id \in ids)

\* line 133: {str(p["_id"]): float(p.get("price", 0)) for p in products}
price_map(prods) ==
  LET keys == { str(prods[i]._id) : i \in 1..Len(prods) }
  IN [k \in keys |->
        LET last == CHOOSE i \in 1..Len(prods) :
                      /\ str(prods[i]._id) = k
                      /\ \A j \in (i+1)..Len(prods) : str(prods[j]._id) # k
        IN prods[last].price]

\* dict.get(key, default)
get(map, key, default) == IF key \in DOMAIN map THEN map[key] ELSE default

\* line 141: next((p for p in products if str(p["_id"]) == item.product_id), None)
prod_title(prods, pid) ==
  LET hits == { i \in 1..Len(prods) : str(prods[i]._id) = pid }
  IN IF hits = {} THEN "Unknown"
     ELSE prods[CHOOSE i \in hits : \A j \in hits : i <= j].title

\* lines 138, 142-147: the line item appended for one requested item
line_item(prods, item) ==
  [product_id |-> item.product_id,
   title      |-> prod_title(prods, item.product_id),
   price      |-> get(price_map(prods), item.product_id, 0),
   quantity   |-> item.quantity]

line_items(prods, items) == [i \in 1..Len(items) |-> line_item(prods, items[i])]

\* subtotal_of adding the unit price, not price * quantity
RECURSIVE subtotal_of_UnitPrice(_, _, _)
subtotal_of_UnitPrice(prods, items, n) ==
  IF n = 0 THEN 0
  ELSE LET price == get(price_map(prods), items[n].product_id, 0)
       IN subtotal_of_UnitPrice(prods, items, n - 1) + price

\* lines 136-140: subtotal accumulated over the items in request order
RECURSIVE subtotal_of(_, _, _)
subtotal_of(prods, items, n) ==
  IF n = 0 THEN 0
  ELSE LET price == get(price_map(prods), items[n].product_id, 0)
           line_total == price * items[n].quantity
       IN subtotal_of(prods, items, n - 1) + line_total

\* lines 149-161: tax, total and the order document (the customer fields are
\* copied from the request unchanged and are left out)
order_doc(prods, items) ==
  LET subtotal == subtotal_of(prods, items, Len(items))
      tax == round(TimesTaxRate(subtotal))
      total == round(subtotal + tax)
  IN [items    |-> line_items(prods, items),
      subtotal |-> round(subtotal),
      tax      |-> tax,
      total    |-> total]

\* CheckoutFind creating a draft order before it parses the ids, so that a
\* request failing on a malformed id leaves the draft behind
CheckoutFind_DraftFirst(p, items) ==
  /\ pc[p] = "idle"
  /\ calls < MaxCalls
  /\ calls' = calls + 1
  /\ request' = Request(p, "checkout", items)
  /\ IF ~db
       THEN /\ response' = HTTPException(p, "checkout", 500, "Database not configured")
            /\ UNCHANGED <<pc, req, products, order>>
       ELSE IF \E i \in 1..Len(items) : ObjectId(items[i].product_id) = InvalidId
         THEN /\ response' = Unhandled(p, "checkout", "InvalidId")
              /\ order' = create_document(order,
                    [items |-> <<>>, subtotal |-> 0, tax |-> 0, total |-> 0])
              /\ UNCHANGED <<pc, req, products>>
         ELSE LET product_ids == { ObjectId(items[i].product_id) : i \in 1..Len(items) }
              IN /\ products' = [products EXCEPT ![p] = find(product, product_ids)]
                 /\ req' = [req EXCEPT ![p] = items]
                 /\ pc' = [pc EXCEPT ![p] = "checkout_save"]
                 /\ UNCHANGED <<response, order>>
  /\ UNCHANGED <<db, product, sidx, reprices>>

\* lines 127-133: the db check, the ObjectId parse and the bulk lookup
CheckoutFind(p, items) ==
  /\ pc[p] = "idle"
  /\ calls < MaxCalls
  /\ calls' = calls + 1
  /\ request' = Request(p, "checkout", items)
  /\ IF ~db
       THEN /\ response' = HTTPException(p, "checkout", 500, "Database not configured")
            /\ UNCHANGED <<pc, req, products>>
       ELSE IF \E i \in 1..Len(items) : ObjectId(items[i].product_id) = InvalidId
         THEN /\ response' = Unhandled(p, "checkout", "InvalidId")
              /\ UNCHANGED <<pc, req, products>>
         ELSE LET product_ids == { ObjectId(items[i].product_id) : i \in 1..Len(items) }
              IN /\ products' = [products EXCEPT ![p] = find(product, product_ids)]
                 /\ req' = [req EXCEPT ![p] = items]
                 /\ pc' = [pc EXCEPT ![p] = "checkout_save"]
                 /\ UNCHANGED response
  /\ UNCHANGED <<db, product, order, sidx, reprices>>

\* line 132 when the store raises: the exception leaves the handler
CheckoutFindError(p, items) ==
  /\ pc[p] = "idle"
  /\ calls < MaxCalls
  /\ calls' = calls + 1
  /\ db
  /\ \A i \in 1..Len(items) : ObjectId(items[i].product_id) # InvalidId
  /\ response' = Unhandled(p, "checkout", "PyMongoError")
  /\ request' = Request(p, "checkout", items)
  /\ UNCHANGED <<db, product, order, pc, sidx, req, products, reprices>>

\* CheckoutSave answering an empty cart without writing an order
CheckoutSave_SkipsEmpty(p) ==
  /\ pc[p] = "checkout_save"
  /\ LET doc == order_doc(products[p], req[p])
     IN /\ order' = IF req[p] = <<>> THEN order ELSE create_document(order, doc)
        /\ response' = CheckoutResponse(p, inserted_id(order),
                                        doc.subtotal, doc.tax, doc.total)
  /\ pc' = [pc EXCEPT ![p] = "idle"]
  /\ req' = [req EXCEPT ![p] = <<>>]
  /\ products' = [products EXCEPT ![p] = <<>>]
  /\ UNCHANGED <<db, product, sidx, request, calls, reprices>>

\* lines 135-165: the computation, the single create_document, the response
CheckoutSave(p) ==
  /\ pc[p] = "checkout_save"
  /\ LET doc == order_doc(products[p], req[p])
     IN /\ order' = create_document(order, doc)
        /\ response' = CheckoutResponse(p, inserted_id(order),
                               doc.subtotal, doc.tax, doc.total)
  /\ pc' = [pc EXCEPT ![p] = "idle"]
  /\ req' = [req EXCEPT ![p] = <<>>]
  /\ products' = [products EXCEPT ![p] = <<>>]
  /\ UNCHANGED <<db, product, sidx, request, calls, reprices>>

\* ------------------------------------------------------------ environment
\* an administrator changes a product's price directly in the store
AdminReprice(i, price) ==
  /\ db
  /\ reprices < MaxReprice
  /\ i \in 1..Len(product)
  /\ product[i]._id \in AdminIds
  /\ product[i].price # price
  /\ product' = [product EXCEPT ![i].price = price]
  /\ reprices' = reprices + 1
  /\ UNCHANGED <<db, order, pc, sidx, req, products, request, response, calls>>

Step(p) ==
  \/ SeedCount(p)
  \/ SeedInsert(p)
  \/ \E items \in OrderRequest : CheckoutFind(p, items)
  \/ \E items \in OrderRequest : CheckoutFindError(p, items)
  \/ CheckoutSave(p)

Reprice == \E i \in 1..Len(product), price \in AdminPrices : AdminReprice(i, price)

Next ==
  \/ \E p \in Procs : Step(p)
  \/ Reprice

Spec == Init /\ [][Next]_vars

\* requests served one after another: a worker steps only while every other
\* worker is idle
SeqNext ==
  \/ \E p \in Procs : (\A q \in Procs \ {p} : pc[q] = "idle") /\ Step(p)
  \/ Reprice

SeqSpec == Init /\ [][SeqNext]_vars

\* ----------------------------------------------------------------- claims
\* the workers that complete a checkout (write the order, answer) in a step
Saved == { p \in Procs : pc[p] = "checkout_save" /\ pc'[p] = "idle" }

\* a request is received in this step
Received == calls' = calls + 1

HasMalformed(items) == \E i \in 1..Len(items) : items[i].product_id.form = "malformed"

RECURSIVE SumLines(_, _)
SumLines(lines, n) ==
  IF n = 0 THEN 0 ELSE SumLines(lines, n - 1) + lines[n].price * lines[n].quantity

\* C1: every step grows the order collection by exactly one document when a
\* checkout completes successfully in it and by none otherwise (a checkout
\* failing on a missing store, a malformed id or a lookup error included);
\* the one document written is the complete order, and the orders already
\* stored stay as they are.
C1_OneOrderPerSuccessfulCheckout ==
  [][ /\ Len(order') = Len(order) + Cardinality(Saved)
      /\ SubSeq(order', 1, Len(order)) = order
      /\ \A p \in Saved :
           /\ response'.to = p
           /\ response'.endpoint = "checkout"
           /\ response'.status = 200
           /\ response'.order_id = str(order'[Len(order')]._id)
           /\ DOMAIN order'[Len(order')] = {"_id", "items", "subtotal", "tax", "total"}
           /\ Len(order'[Len(order')].items) = Len(req[p])
      /\ (Received /\ request'.endpoint = "checkout" /\ response' # response)
           => (response'.status = 500 /\ order' = order)
    ]_vars

C1_Witness ==
  /\ Len(order) = 1
  /\ response.endpoint = "checkout"
  /\ response.status = 500
  /\ response.exc = "InvalidId"

\* C2 (as claimed): every stored order, and the last checkout response,
\* satisfies tax = round(subtotal * 0.08, 2) and total = round(subtotal + tax, 2)
\* over its own stored fields.
C2_StoredTotalsConsistent ==
  /\ \A i \in 1..Len(order) :
       /\ order[i].tax = round(TimesTaxRate(order[i].subtotal))
       /\ order[i].total = round(order[i].subtotal + order[i].tax)
  /\ (response.endpoint = "checkout" /\ response.status = 200) =>
       /\ response.tax = round(TimesTaxRate(response.subtotal))
       /\ response.total = round(response.subtotal + response.tax)

\* C3: with seed calls served one after another from an empty collection, the
\* call that finds the collection empty inserts exactly the 4 samples and
\* answers count 4; a call that finds n >= 1 products answers "already
\* seeded" with count n (= 4) and leaves the collection unchanged; the
\* collection never holds more than 4 products.
C3_SequentialSeeding ==
  [][ /\ Len(product') <= 4
      /\ \A p \in Procs :
           /\ (db /\ Received /\ request'.to = p /\ request'.endpoint = "seed") =>
                IF Len(product) >= 1
                  THEN /\ response'.to = p
                       /\ response'.status = 200
                       /\ response'.detail = "Products already seeded"
                       /\ response'.count = Len(product)
                       /\ response'.count = 4
                       /\ product' = product
                       /\ pc'[p] = "idle"
                  ELSE /\ pc'[p] = "seed_insert"
                       /\ response' = response
           /\ (pc[p] = "seed_insert" /\ pc'[p] = "idle") =>
                /\ response'.to = p
                /\ response'.status = 200
                /\ response'.detail = "Seeded products"
                /\ response'.count = 4
                /\ Len(product') = 4
                /\ \A i \in 1..4 : product'[i].title = sample[i].title
    ]_vars

C3_Witness ==
  /\ response.endpoint = "seed"
  /\ response.detail = "Products already seeded"
  /\ response.count = 4
  /\ Len(product) = 4
  /\ calls >= 2

\* C4 (as claimed): a checkout request with a malformed product id in any
\* item is answered with a 4xx status and creates no order.
C4_MalformedIdIsClientError ==
  [][ (db /\ Received /\ request'.endpoint = "checkout" /\ HasMalformed(request'.items)) =>
        /\ response'.to = request'.to
        /\ response'.status \in 400..499
        /\ order' = order
    ]_vars

\* C5 (as claimed): in the order a checkout writes, an item whose product the
\* lookup did not return (its id is absent from the catalog) is priced 0 and
\* titled "Unknown", and an item whose product the lookup did return carries
\* that product's price and title; the order is written either way.
C5_MissingPricedZeroOthersNormally ==
  [][ \A p \in Saved :
        LET new == order'[Len(order')]
        IN /\ Len(order') = Len(order) + 1
           /\ response'.status = 200
           /\ Len(new.items) = Len(req[p])
           /\ \A i \in 1..Len(req[p]) :
                LET hits == { k \in 1..Len(products[p]) :
                                products[p][k]._id = ObjectId(req[p][i].product_id) }
                IN IF hits = {}
                     THEN /\ new.items[i].price = 0
                          /\ new.items[i].title = "Unknown"
                     ELSE \E k \in hits :
                            /\ new.items[i].price = products[p][k].price
                            /\ new.items[i].title = products[p][k].title
    ]_vars

\* what C6 says of the line items of the order a checkout writes: one per
\* requested item, in request order, with the requested id and quantity; and
\* permuting the request permutes the line items and keeps the three totals
LinesFollowRequest(p) ==
  LET new == order'[Len(order')]
      n == Len(req[p])
  IN /\ Len(new.items) = n
     /\ \A i \in 1..n :
          /\ new.items[i].product_id = req[p][i].product_id
          /\ new.items[i].quantity = req[p][i].quantity
     /\ \A perm \in Permutations(1..n) :
          LET permuted == [i \in 1..n |-> req[p][perm[i]]]
              doc == order_doc(products[p], permuted)
          IN /\ doc.subtotal = new.subtotal
             /\ doc.tax = new.tax
             /\ doc.total = new.total
             /\ \A i \in 1..n : doc.items[i] = new.items[perm[i]]

C7_EmptyCheckout ==
  [][ \A p \in Procs :
        /\ (db /\ Received /\ request'.to = p /\ request'.endpoint = "checkout"
               /\ request'.items = <<>>) =>
             \/ pc'[p] = "checkout_save" /\ req'[p] = <<>>
             \/ response'.to = p /\ response'.exc = "PyMongoError"
        /\ (p \in Saved /\ req[p] = <<>>) =>
             LET new == order'[Len(order')]
             IN /\ Len(order') = Len(order) + 1
                /\ new.items = <<>>
                /\ new.subtotal = 0 /\ new.tax = 0 /\ new.total = 0
                /\ response'.status = 200
                /\ response'.order_id = str(new._id)
                /\ response'.subtotal = 0 /\ response'.tax = 0 /\ response'.total = 0
    ]_vars

C7_Witness ==
  \E i \in 1..Len(order) :
    /\ order[i].items = <<>>
    /\ order[i].total = 0
    /\ response.status = 200
    /\ response.order_id = str(order[i]._id)
    /\ response.total = 0

\* C8: without a store handle every seed and checkout request is answered
\* 500 "Database not configured" in its first step, with no lookup and no
\* write: both collections and every worker's position stay as they are.
C8_Unconfigured ==
  [][ (~db /\ Received) =>
        /\ request'.endpoint \in {"seed", "checkout"}
        /\ response'.to = request'.to
        /\ response'.endpoint = request'.endpoint
        /\ response'.status = 500
        /\ response'.detail = "Database not configured"
        /\ product' = product /\ product = <<>>
        /\ order' = order /\ order = <<>>
        /\ products' = products
        /\ pc' = pc
    ]_vars

C8_Witness ==
  /\ ~db
  /\ calls >= 2
  /\ request.endpoint = "checkout"
  /\ request.items # <<>>
  /\ response.endpoint = "checkout"
  /\ response.status = 500
  /\ response.detail = "Database not configured"

\* the size the product collection ends with once the seed calls that have
\* passed the empty check finish their inserts
SeedOutcome ==
  LET RECURSIVE Left(_)
      Left(S) == IF S = {} THEN 0
                 ELSE LET p == CHOOSE q \in S : TRUE
                      IN (IF pc[p] = "seed_insert" THEN Len(sample) - sidx[p] + 1 ELSE 0)
                         + Left(S \ {p})
  IN Len(product) + Left(Procs)

\* C9: a seed call passes the check only on an empty collection, but the
\* check and the inserts are separate steps, so several calls can pass it
\* before the first insert; each of them then inserts its 4 samples and
\* answers "Seeded products", count 4.  Once the collection is non-empty its
\* final size is fixed: it exceeds 4 only when two or more calls had passed
\* the check on the empty collection, and never exceeds 4 per worker.
C9_SeedRace ==
  [][ /\ \A p \in Procs :
           /\ (pc[p] = "idle" /\ pc'[p] = "seed_insert") => Len(product) = 0
           /\ (pc[p] = "seed_insert" /\ pc'[p] = "idle") =>
                /\ response'.to = p
                /\ response'.detail = "Seeded products"
                /\ response'.count = 4
      /\ Len(product') # Len(product) =>
           /\ Len(product') = Len(product) + 1
           /\ \E p \in Procs : pc[p] = "seed_insert" /\ sidx'[p] # sidx[p]
      /\ Len(product) >= 1 => SeedOutcome' = SeedOutcome
      /\ Len(product') > 4 => SeedOutcome' >= 8
      /\ SeedOutcome' <= 4 * Cardinality(Procs)
    ]_vars

C9_Witness ==
  /\ Len(product) = 8
  /\ \A p \in Procs : pc[p] = "idle"
  /\ response.detail = "Seeded products"
  /\ response.count = 4

\* C10 (as claimed): a checkout's lookup result is the store's content at the
\* lookup; the order it writes prices every item whose product the lookup
\* returned at the returned price, whatever happens to the store or in other
\* checkouts in between; stored orders never change; and no checkout step
\* changes the product collection.
C10_PricesFixedAtLookup ==
  [][ /\ SubSeq(order', 1, Len(order)) = order
      /\ \A p \in Procs :
           /\ (pc[p] = "idle" /\ pc'[p] = "checkout_save") =>
                /\ product' = product
                /\ \A k \in 1..Len(products'[p]) :
                     \E j \in 1..Len(product) : product[j] = products'[p][k]
           /\ (pc[p] = "checkout_save" /\ pc'[p] = "checkout_save") =>
                /\ products'[p] = products[p]
                /\ req'[p] = req[p]
           /\ p \in Saved =>
                /\ product' = product
                /\ \A i \in 1..Len(req[p]), k \in 1..Len(products[p]) :
                     products[p][k]._id = ObjectId(req[p][i].product_id) =>
                       order'[Len(order')].items[i].price = products[p][k].price
    ]_vars
====
